---- MODULE Spec2Model ----
(***************************************************************************)
(* The call-session engine of AudioCallApp.tsx: the React component's      *)
(* state and refs, the WebSocket / MediaRecorder / audio callbacks that    *)
(* connectToLiveAPI installs, and startCall / endCall / toggleMute /       *)
(* toggleSpeaker.                                                          *)
(*                                                                         *)
(* Every handler is one action.  A state update is committed and the       *)
(* component re-rendered at the end of the handler that made it, so the    *)
(* callbacks of the "current render" always see the committed callState;   *)
(* what is NOT refreshed are the closures that were handed out earlier:    *)
(* the connectToLiveAPI instance a running startCall captured, and the     *)
(* handlers that instance attached to its WebSocket.  Those keep the       *)
(* callState of the render that created the instance (cb below).           *)
(*                                                                         *)
(* Every startCall invocation i acquires at most one capture stream and    *)
(* opens at most one WebSocket; both carry the invocation's number i.      *)
(***************************************************************************)
EXTENDS Integers, Sequences, FiniteSets, TLC

\* ---------------------------------------------------------------- bounds
MaxCalls  == 2      \* startCall invocations in a run
MaxChunks == 2      \* non-empty chunks delivered by recorders in a run
MaxPlays  == 2      \* inbound audio payloads in flight at once
MaxTexts  == 2      \* AI entries the transcript may hold
MaxLeaks  == 1      \* decode failures in a run

Calls == 1..MaxCalls

VARIABLES
    callState,        \* useState<CallState>, without the derived duration text
    showCallModal,    \* useState<boolean>
    conversation,     \* useState<ConversationMessage[]>: sequence of [speaker, message]
    isRecording,      \* useState<boolean>: the "is-speaking" indicator
    wsRef,            \* wsRef.current: 0 (null) or a connection
    mediaStreamRef,   \* mediaStreamRef.current: 0 (null) or a stream
    mediaRecorderRef, \* mediaRecorderRef.current: 0 (null) or a recorder
    connCb,           \* callState captured by the memoized connectToLiveAPI
    calls,            \* the startCall invocations
    conns,            \* the WebSockets created so far
    streams,          \* the capture streams acquired so far
    timers,           \* the pending setTimeout callbacks, in the order they were set
    recorders,        \* the MediaRecorders created so far
    reads,            \* chunks whose audioBlob.arrayBuffer() is pending
    nChunks,          \* non-empty chunks delivered so far; chunk k is the k-th
    plays,            \* the inbound audio payloads being read, decoded or played
    openContexts,     \* AudioContexts not closed plus object URLs not revoked
    toasts            \* the notifications the last handler emitted

vars == <<callState, showCallModal, conversation, isRecording, wsRef,
          mediaStreamRef, mediaRecorderRef, connCb, calls, conns, streams,
          timers, recorders, reads, nChunks, plays, openContexts, toasts>>

\* ----------------------------------------------------------- definitions
IdleDefaults ==
    [isActive |-> FALSE, startTime |-> 0, isMuted |-> FALSE,
     speakerEnabled |-> TRUE, status |-> "idle"]

Greeting == [speaker |-> "AI", message |-> "greeting"]

NoConn ==
    [rs |-> "none", cb |-> [isMuted |-> FALSE, speakerEnabled |-> TRUE],
     closePending |-> FALSE, sent |-> <<>>, nAck |-> 0]

NewCall ==
    [pc |-> "new", cb |-> [isMuted |-> FALSE, speakerEnabled |-> TRUE],
     res |-> "none"]

\* useCallback(connectToLiveAPI, [apiKey, callState.speakerEnabled, toast]):
\* a render makes a new instance, closing over that render's callState, only
\* when speakerEnabled differs from the one the kept instance was made with.
Memo(cs) ==
    IF cs.speakerEnabled # connCb.speakerEnabled
    THEN [isMuted |-> cs.isMuted, speakerEnabled |-> cs.speakerEnabled]
    ELSE connCb

Init ==
    /\ callState = IdleDefaults
    /\ showCallModal = FALSE
    /\ conversation = <<>>
    /\ isRecording = FALSE
    /\ wsRef = 0
    /\ mediaStreamRef = 0
    /\ mediaRecorderRef = 0
    /\ connCb = [isMuted |-> FALSE, speakerEnabled |-> TRUE]
    /\ calls = [i \in Calls |-> NewCall]
    /\ conns = [i \in Calls |-> NoConn]
    /\ streams = [i \in Calls |-> [state |-> "none", enabled |-> TRUE]]
    /\ timers = <<>>
    /\ recorders = <<>>
    /\ reads = {}
    /\ nChunks = 0
    /\ plays = <<>>
    /\ openContexts = 0
    /\ toasts = <<>>

\* The start button: onClick={startCall} disabled={callState.isActive}.
\* startCall runs up to its first await (the permission query).
StartCallClick(i) ==
    /\ calls[i].pc = "new"
    /\ IF i = 1 THEN TRUE ELSE calls[i - 1].pc # "new"
    /\ ~callState.isActive
    /\ calls' = [calls EXCEPT ![i].pc = "perm", ![i].cb = connCb]
    /\ toasts' = <<>>
    /\ UNCHANGED <<callState, showCallModal, conversation, isRecording, wsRef,
                   mediaStreamRef, mediaRecorderRef, connCb, conns, streams,
                   recorders, reads, nChunks, plays,
                   timers, openContexts>>

\* ------------------------------------------------------------- endCall
\* wsRef.current.close(): an unclosed socket starts its closing handshake.
CloseWs(cn) ==
    IF wsRef # 0 /\ cn[wsRef].rs \in {"connecting", "open"}
    THEN [cn EXCEPT ![wsRef].rs = "closing"]
    ELSE cn

\* recorder.stop() when recorder.state !== 'inactive': the recorder becomes
\* inactive and queues one last dataavailable event.
StopRecorder(rc) ==
    IF mediaRecorderRef # 0 /\ rc[mediaRecorderRef].state # "inactive"
    THEN [rc EXCEPT ![mediaRecorderRef].state = "inactive",
                    ![mediaRecorderRef].flush = TRUE]
    ELSE rc

\* getTracks().forEach(track => track.stop()) on the held stream.
StopTracks(st) ==
    IF mediaStreamRef # 0
    THEN [st EXCEPT ![mediaStreamRef].state = "stopped"]
    ELSE st

\* A recorder whose stream has lost every live track inactivates itself
\* (with the same last dataavailable event).
TracksEnded(rc, st) ==
    [r \in DOMAIN rc |->
        IF rc[r].state = "recording" /\ st[rc[r].stream].state = "stopped"
        THEN [rc[r] EXCEPT !.state = "inactive", !.flush = TRUE]
        ELSE rc[r]]

EndedToast == "Chamada Encerrada"

\* endCall without its setShowCallModal(false).
EndCallKeepsDialog(pre, cl) ==
    /\ conns' = CloseWs(conns)
    /\ wsRef' = 0
    /\ recorders' = TracksEnded(StopRecorder(recorders), StopTracks(streams))
    /\ mediaRecorderRef' = 0
    /\ streams' = StopTracks(streams)
    /\ mediaStreamRef' = 0
    /\ callState' = IdleDefaults
    /\ connCb' = Memo(IdleDefaults)
    /\ conversation' = <<>>
    /\ isRecording' = FALSE
    /\ toasts' = Append(pre, EndedToast)
    /\ calls' = cl
    /\ UNCHANGED <<showCallModal, reads, nChunks, plays, timers, openContexts>>

\* endCall, called by the end buttons and by startCall's two catch blocks.
\* pre: the notifications the caller emitted before; cl: the caller's calls.
EndCall(pre, cl) ==
    /\ conns' = CloseWs(conns)
    /\ wsRef' = 0
    /\ recorders' = TracksEnded(StopRecorder(recorders), StopTracks(streams))
    /\ mediaRecorderRef' = 0
    /\ streams' = StopTracks(streams)
    /\ mediaStreamRef' = 0
    /\ callState' = IdleDefaults
    /\ connCb' = Memo(IdleDefaults)
    /\ showCallModal' = FALSE
    /\ conversation' = <<>>
    /\ isRecording' = FALSE
    /\ toasts' = Append(pre, EndedToast)
    /\ calls' = cl
    /\ UNCHANGED <<reads, nChunks, plays,
                   timers, openContexts>>

\* The two end buttons live in the call dialog (open={showCallModal}).
EndCallClick ==
    /\ showCallModal
    /\ EndCall(<<>>, calls)

\* ----------------------------------------------------------- startCall
PermissionStates == {"granted", "denied", "throws"}

\* startCall resumes after navigator.permissions.query: 'denied' notifies
\* and returns; a rejected query lands in the outer catch; otherwise the
\* session is marked active and getUserMedia is awaited.
PermissionResolved(i, r) ==
    /\ calls[i].pc = "perm"
    /\ \/ /\ r = "denied"
          /\ toasts' = <<"Permissao Negada">>
          /\ calls' = [calls EXCEPT ![i].pc = "done", ![i].res = "denied"]
          /\ UNCHANGED <<callState, showCallModal, conversation, isRecording,
                         wsRef, mediaStreamRef, mediaRecorderRef, connCb,
                         conns, streams, recorders, reads, nChunks, plays,
                   timers, openContexts>>
       \/ /\ r = "throws"
          /\ EndCall(<<"Erro">>,
                     [calls EXCEPT ![i].pc = "done", ![i].res = "throws"])
       \/ /\ r = "granted"
          /\ showCallModal' = TRUE
          /\ callState' = [callState EXCEPT !.isActive = TRUE,
                                            !.startTime = i,
                                            !.status = "connecting"]
          /\ connCb' = Memo(callState')
          /\ conversation' = <<Greeting>>
          /\ calls' = [calls EXCEPT ![i].pc = "media"]
          /\ toasts' = <<>>
          /\ UNCHANGED <<isRecording, wsRef, mediaStreamRef, mediaRecorderRef,
                         conns, streams, recorders, reads, nChunks, plays,
                   timers, openContexts>>

\* getUserMedia resolves, or rejects with a permission error, with a
\* device-unavailable error, or with some other error.
MediaResults == {"granted", "NotAllowedError", "NotReadableError", "AbortError"}

\* The notification the mediaError handler chooses for mediaError.name.
MediaErrorToast(name) ==
    IF name = "NotAllowedError" THEN "Acesso Negado" ELSE "Erro de Microfone"

ConnectEverywhere(i) ==
    [c \in Calls |-> [NoConn EXCEPT !.rs = "connecting", !.cb = calls[i].cb]]

\* connectToLiveAPI as startCall invocation i captured it: a new WebSocket,
\* stored in wsRef.current, whose handlers close over the captured callState.
ConnectToLiveAPI(i) ==
    [conns EXCEPT ![i] = [NoConn EXCEPT !.rs = "connecting", !.cb = calls[i].cb]]

\* startCall resumes after getUserMedia: on success the stream is stored and
\* connectToLiveAPI is called; on rejection the error is classified, notified,
\* and endCall runs.
GetUserMediaResolved(i, r) ==
    /\ calls[i].pc = "media"
    /\ \/ /\ r = "granted"
          /\ streams' = [streams EXCEPT ![i] = [state |-> "live", enabled |-> TRUE]]
          /\ mediaStreamRef' = i
          /\ conns' = ConnectToLiveAPI(i)
          /\ wsRef' = i
          /\ calls' = [calls EXCEPT ![i].pc = "done", ![i].res = "granted"]
          /\ toasts' = <<>>
          /\ UNCHANGED <<callState, showCallModal, conversation, isRecording,
                         mediaRecorderRef, connCb, recorders, reads, nChunks,
                         plays,
                   timers, openContexts>>
       \/ /\ r # "granted"
          /\ EndCall(<<MediaErrorToast(r)>>,
                     [calls EXCEPT ![i].pc = "done", ![i].res = r])

\* ------------------------------------------------------------- toggles
\* toggleMute (dialog button): flips isMuted and writes the isMuted of the
\* current render into track.enabled of the held stream.
ToggleMute ==
    /\ showCallModal
    /\ callState' = [callState EXCEPT !.isMuted = ~callState.isMuted]
    /\ connCb' = Memo(callState')
    /\ streams' = IF mediaStreamRef # 0
                  THEN [streams EXCEPT ![mediaStreamRef].enabled = callState.isMuted]
                  ELSE streams
    /\ toasts' = <<>>
    /\ UNCHANGED <<showCallModal, conversation, isRecording, wsRef,
                   mediaStreamRef, mediaRecorderRef, calls, conns, recorders,
                   reads, nChunks, plays,
                   timers, openContexts>>

\* toggleSpeaker (dialog button).
ToggleSpeaker ==
    /\ showCallModal
    /\ callState' = [callState EXCEPT !.speakerEnabled = ~callState.speakerEnabled]
    /\ connCb' = Memo(callState')
    /\ toasts' = <<>>
    /\ UNCHANGED <<showCallModal, conversation, isRecording, wsRef,
                   mediaStreamRef, mediaRecorderRef, calls, conns, streams,
                   recorders, reads, nChunks, plays,
                   timers, openContexts>>

\* ------------------------------------------------- transport callbacks
\* The status each transport callback writes.
OpenStatus == "connected"
AckStatus == "connected"
ErrorStatusSlip == "connected"
ErrorStatus == "disconnected"
CloseStatus == "disconnected"

\* onopen of connection c: status 'connected', the 100 ms timer that will
\* send the setup message, and the "Conectado" notification.
OnOpen(c) ==
    /\ conns[c].rs = "connecting"
    /\ conns' = [conns EXCEPT ![c].rs = "open"]
    /\ timers' = Append(timers, [kind |-> "setup", conn |-> c])
    /\ callState' = [callState EXCEPT !.status = OpenStatus]
    /\ connCb' = Memo(callState')
    /\ toasts' = <<"Conectado">>
    /\ UNCHANGED <<showCallModal, conversation, isRecording, wsRef,
                   mediaStreamRef, mediaRecorderRef, calls, streams, recorders,
                   reads, nChunks, plays, openContexts>>

\* A message on the wire: 0 is the setup message, k > 0 the realtimeInput
\* message carrying chunk k.
SetupMsg == 0

SendFailureCloses(cn, m) ==
    IF wsRef # 0 /\ cn[wsRef].rs = "open"
    THEN [cn EXCEPT ![wsRef].sent = Append(@, m)]
    ELSE [c \in DOMAIN cn |->
            [cn[c] EXCEPT !.rs = IF @ = "none" THEN "none" ELSE "closed"]]

\* wsRef.current.send(m): written when that socket is OPEN; otherwise the
\* call throws (null, CONNECTING) or the data is discarded (CLOSING, CLOSED).
Send(cn, m) ==
    IF wsRef # 0 /\ cn[wsRef].rs = "open"
    THEN [cn EXCEPT ![wsRef].sent = Append(@, m)]
    ELSE cn

\* Timers fire in the order of their deadlines: a 100 ms timer never fires
\* before a 100 ms timer set earlier, and a 500 ms timer never fires before
\* any timer set earlier.
Due(p) ==
    /\ p \in DOMAIN timers
    /\ IF timers[p].kind = "setup"
       THEN \A q \in 1..(p - 1) : timers[q].kind # "setup"
       ELSE p = 1

Without(seq, p) ==
    [k \in 1..(Len(seq) - 1) |-> IF k < p THEN seq[k] ELSE seq[k + 1]]

\* The 100 ms timer set by an onopen: sends the setup message on whatever
\* wsRef.current is now, if that socket is OPEN.  (wait: see RecTimerFires.)
SetupTimerFires(p) ==
    /\ Due(p)
    /\ timers[p].kind = "setup"
    /\ timers' = Without(timers, p)
    /\ conns' = Send(conns, SetupMsg)
    /\ recorders' = [r \in DOMAIN recorders |->
                        [recorders[r] EXCEPT !.wait = IF @ > 0 THEN @ - 1 ELSE 0]]
    /\ toasts' = <<>>
    /\ UNCHANGED <<callState, showCallModal, conversation, isRecording, wsRef,
                   mediaStreamRef, mediaRecorderRef, connCb, calls, streams,
                   reads, nChunks, plays, openContexts>>

\* onerror of c (the socket has failed; its close event follows).
OnError(c) ==
    /\ conns[c].rs \in {"connecting", "open", "closing"}
    /\ conns' = [conns EXCEPT ![c].rs = "closed", ![c].closePending = TRUE]
    /\ callState' = [callState EXCEPT !.status = ErrorStatus]
    /\ connCb' = Memo(callState')
    /\ toasts' = <<"Erro de Conexao">>
    /\ UNCHANGED <<showCallModal, conversation, isRecording, wsRef,
                   mediaStreamRef, mediaRecorderRef, calls, streams, recorders,
                   reads, nChunks, plays,
                   timers, openContexts>>

\* onclose of c: after an error, after the peer closed, or when the closing
\* handshake that close() started completes.
OnClose(c) ==
    /\ conns[c].rs \in {"open", "closing"} \/ conns[c].closePending
    /\ conns' = [conns EXCEPT ![c].rs = "closed", ![c].closePending = FALSE]
    /\ callState' = [callState EXCEPT !.status = CloseStatus]
    /\ connCb' = Memo(callState')
    /\ toasts' = <<>>
    /\ UNCHANGED <<showCallModal, conversation, isRecording, wsRef,
                   mediaStreamRef, mediaRecorderRef, calls, streams, recorders,
                   reads, nChunks, plays,
                   timers, openContexts>>

\* ------------------------------------------------------ inbound frames
TextOf == [T1 |-> "t1", T2 |-> "t2", A |-> ""]
\* inlineData.mimeType of a part: the peer's audio parts declare raw PCM.
MimeOf == [T1 |-> "", T2 |-> "", A |-> "audio/pcm"]
PartKinds == {"T1", "T2", "A"}
PartSeqs == {<<>>} \cup {<<a>> : a \in PartKinds}
                   \cup {<<a, b>> : a \in PartKinds, b \in PartKinds}

BinaryFrameParsed == [kind |-> "text", valid |-> TRUE, setupComplete |-> TRUE,
                      parts |-> <<>>]
BinaryFrame == [kind |-> "binary", valid |-> TRUE, setupComplete |-> FALSE,
                parts |-> <<>>]
MalformedFrameObeyed == [kind |-> "text", valid |-> FALSE, setupComplete |-> TRUE,
                         parts |-> <<>>]
MalformedFrame == [kind |-> "text", valid |-> FALSE, setupComplete |-> FALSE,
                   parts |-> <<>>]
Frames ==
    {BinaryFrame, MalformedFrame} \cup
    [kind : {"text"}, valid : {TRUE}, setupComplete : BOOLEAN, parts : PartSeqs]

IsText(part) == TextOf[part] # ""
IsAudio(part) == part = "A"

\* parts.find(part => part.text): index of the first text part, or 0.
FindText(parts) ==
    IF \E k \in 1..Len(parts) : IsText(parts[k])
    THEN CHOOSE k \in 1..Len(parts) :
            IsText(parts[k]) /\ \A j \in 1..(k - 1) : ~IsText(parts[j])
    ELSE 0

\* parts.find(part => part.inlineData?.mimeType?.startsWith('audio/')).
FindAudio(parts) ==
    IF \E k \in 1..Len(parts) : IsAudio(parts[k])
    THEN CHOOSE k \in 1..Len(parts) :
            IsAudio(parts[k]) /\ \A j \in 1..(k - 1) : ~IsAudio(parts[j])
    ELSE 0

\* const supportedTypes = ['audio/mp3', 'audio/wav', 'audio/ogg', mimeType].
SupportedTypes(mimeType) == <<"audio/mp3", "audio/wav", "audio/ogg", mimeType>>

\* playAudioResponse: the loop over supportedTypes makes a Blob, an object
\* URL and an Audio element for the candidate and calls play(); none of these
\* throws (play() reports failure by rejecting its promise), audioUrl is set,
\* and the loop breaks: one attempt, with the first candidate (cand = 1).
PlayAudioResponse(pl, mimeType) ==
    Append(pl, [kind |-> "inline", phase |-> "starting", gate |-> TRUE,
                cand |-> 1, type |-> SupportedTypes(mimeType)[1]])

NumSetups(c) ==
    Cardinality({k \in 1..Len(conns[c].sent) : conns[c].sent[k] = SetupMsg})

SpeakerGateShut(c) == FALSE

\* `callState.speakerEnabled` as the onmessage handler of c reads it: from
\* the callState its connectToLiveAPI instance closed over.
SpeakerGate(c) == conns[c].cb.speakerEnabled

\* `callState.isMuted` as the recorder callbacks created by c's handler read it.
MutedGate(c) == conns[c].cb.isMuted

\* onmessage of c.  A Blob starts a FileReader; text is parsed as JSON and a
\* parse failure is logged; serverContent parts append the first text part
\* and play the first audio part; setupComplete sets status 'connected' and,
\* if a stream and a socket are held, arms the 500 ms recorder timer.
\* The peer acknowledges only setup messages it was sent.
OnMessage(c, f) ==
    /\ conns[c].rs = "open"
    /\ f.setupComplete => conns[c].nAck < NumSetups(c)
    /\ toasts' = <<>>
    /\ IF f.kind = "binary"
       THEN /\ Len(plays) < MaxPlays
            /\ plays' = Append(plays, [kind |-> "binary", phase |-> "reading",
                                       gate |-> SpeakerGate(c),
                                       cand |-> 0, type |-> ""])
            /\ UNCHANGED <<callState, connCb, conversation, conns, timers, openContexts>>
       ELSE LET t == FindText(f.parts)
                a == FindAudio(f.parts)
            IN  /\ t # 0 => Len(conversation) <= MaxTexts
                /\ a # 0 => Len(plays) < MaxPlays
                /\ conversation' =
                     IF t # 0
                     THEN Append(conversation,
                                 [speaker |-> "AI", message |-> TextOf[f.parts[t]]])
                     ELSE conversation
                /\ plays' =
                     IF a # 0 /\ SpeakerGate(c)
                     THEN PlayAudioResponse(plays, MimeOf[f.parts[a]])
                     ELSE plays
                /\ openContexts' =
                     IF a # 0 /\ SpeakerGate(c)
                     THEN openContexts + 1
                     ELSE openContexts
                /\ callState' =
                     IF f.setupComplete
                     THEN [callState EXCEPT !.status = AckStatus]
                     ELSE callState
                /\ connCb' = Memo(callState')
                /\ conns' =
                     IF f.setupComplete
                     THEN [conns EXCEPT ![c].nAck = @ + 1]
                     ELSE conns
                /\ timers' =
                     IF f.setupComplete /\ mediaStreamRef # 0 /\ wsRef # 0
                     THEN Append(timers, [kind |-> "rec", conn |-> c])
                     ELSE timers
    /\ UNCHANGED <<showCallModal, isRecording, wsRef, mediaStreamRef,
                   mediaRecorderRef, calls, streams, recorders, reads, nChunks>>

\* ------------------------------------------------------------ playback
\* A payload that holds a transient context: the AudioContext made by
\* reader.onload, or the object URL made by playAudioResponse.
HoldsContext(e) == e.phase \in {"decoding", "starting", "playing"}

\* reader.onload of a binary frame: `reader.result && callState.speakerEnabled`
\* decides whether an AudioContext is created and decodeAudioData started.
ReaderLoad(p) ==
    /\ p \in DOMAIN plays
    /\ plays[p].phase = "reading"
    /\ plays' = IF plays[p].gate THEN [plays EXCEPT ![p].phase = "decoding"]
                ELSE Without(plays, p)
    /\ openContexts' = IF plays[p].gate THEN openContexts + 1 ELSE openContexts
    /\ toasts' = <<>>
    /\ UNCHANGED <<callState, showCallModal, conversation, isRecording, wsRef,
                   mediaStreamRef, mediaRecorderRef, connCb, calls, conns,
                   streams, recorders, reads, nChunks,
                   timers>>

\* decodeAudioData settles: .then starts the source and sets the indicator,
\* .catch clears the indicator; neither closes the AudioContext.  At most
\* MaxLeaks contexts are left behind by failures in a run.
DecodeDone(p, ok) ==
    /\ p \in DOMAIN plays
    /\ plays[p].phase = "decoding"
    /\ plays' = IF ok THEN [plays EXCEPT ![p].phase = "playing"] ELSE Without(plays, p)
    /\ isRecording' = ok
    /\ ok \/ openContexts - Len(SelectSeq(plays, HoldsContext)) < MaxLeaks
    /\ openContexts' = openContexts
    /\ toasts' = <<>>
    /\ UNCHANGED <<callState, showCallModal, conversation, wsRef, mediaStreamRef,
                   mediaRecorderRef, connCb, calls, conns, streams, recorders,
                   reads, nChunks,
                   timers>>

\* audio.play() of an inline payload settles: .then sets the indicator,
\* .catch revokes the object URL (openContexts - 1).
PlaySettled(p, ok) ==
    /\ p \in DOMAIN plays
    /\ plays[p].phase = "starting"
    /\ plays' = IF ok THEN [plays EXCEPT ![p].phase = "playing"] ELSE Without(plays, p)
    /\ isRecording' = IF ok THEN TRUE ELSE isRecording
    /\ openContexts' = IF ok THEN openContexts ELSE openContexts - 1
    /\ toasts' = <<>>
    /\ UNCHANGED <<callState, showCallModal, conversation, wsRef, mediaStreamRef,
                   mediaRecorderRef, connCb, calls, conns, streams, recorders,
                   reads, nChunks,
                   timers>>

\* source.onended / the 'ended' listener: the indicator is cleared and the
\* AudioContext closed / the object URL revoked.
PlaybackEnded(p) ==
    /\ p \in DOMAIN plays
    /\ plays[p].phase = "playing"
    /\ plays' = Without(plays, p)
    /\ isRecording' = FALSE
    /\ openContexts' = openContexts - 1
    /\ toasts' = <<>>
    /\ UNCHANGED <<callState, showCallModal, conversation, wsRef, mediaStreamRef,
                   mediaRecorderRef, connCb, calls, conns, streams, recorders,
                   reads, nChunks,
                   timers>>

\* -------------------------------------------------------------- capture
\* The 500 ms timer set by a setupComplete on timers[1].conn: if a stream is
\* held and wsRef.current is OPEN, a MediaRecorder is made on the held stream,
\* started with a 250 ms slice and stored in mediaRecorderRef (ok = FALSE:
\* the constructor or start() throws, which is logged).  The first slice ends
\* after every 100 ms timer that is pending now (wait counts them).
RecTimerFires(ok) ==
    /\ Due(1)
    /\ timers[1].kind = "rec"
    /\ timers' = Tail(timers)
    /\ IF mediaStreamRef # 0 /\ wsRef # 0 /\ conns[wsRef].rs = "open" /\ ok
       THEN /\ recorders' =
                 Append(recorders,
                        [stream |-> mediaStreamRef,
                         muted |-> MutedGate(timers[1].conn),
                         state |-> "recording", flush |-> FALSE,
                         wait |-> Len(timers) - 1])
            /\ mediaRecorderRef' = Len(recorders) + 1
       ELSE UNCHANGED <<recorders, mediaRecorderRef>>
    /\ toasts' = <<>>
    /\ UNCHANGED <<callState, showCallModal, conversation, isRecording, wsRef,
                   mediaStreamRef, connCb, calls, conns, streams, reads, nChunks,
                   plays, openContexts>>

\* The condition of ondataavailable for a non-empty chunk of recorder r.
AudioGate(r) ==
    /\ wsRef # 0
    /\ conns[wsRef].rs = "open"
    /\ ~recorders[r].muted

\* ondataavailable of recorder r with a non-empty chunk (a time slice, or the
\* last chunk of a stopped recorder): if the gate passes, sendAudioData
\* starts and waits for the chunk's bytes.
RecorderData(r) ==
    /\ r \in DOMAIN recorders
    /\ \/ recorders[r].state = "recording" /\ recorders[r].wait = 0
       \/ recorders[r].flush
    /\ nChunks < MaxChunks
    /\ nChunks' = nChunks + 1
    /\ recorders' = [recorders EXCEPT ![r].flush = FALSE]
    /\ reads' = IF AudioGate(r) THEN reads \cup {nChunks + 1} ELSE reads
    /\ toasts' = <<>>
    /\ UNCHANGED <<callState, showCallModal, conversation, isRecording, wsRef,
                   mediaStreamRef, mediaRecorderRef, connCb, calls, conns,
                   streams, plays,
                   timers, openContexts>>

\* The last dataavailable of a stopped recorder carrying an empty Blob.
RecorderFlushEmpty(r) ==
    /\ r \in DOMAIN recorders
    /\ recorders[r].flush
    /\ recorders' = [recorders EXCEPT ![r].flush = FALSE]
    /\ toasts' = <<>>
    /\ UNCHANGED <<callState, showCallModal, conversation, isRecording, wsRef,
                   mediaStreamRef, mediaRecorderRef, connCb, calls, conns,
                   streams, reads, nChunks, plays,
                   timers, openContexts>>

\* sendAudioData resumes after `await audioBlob.arrayBuffer()` and sends the
\* realtimeInput message on whatever wsRef.current is now.
ReadDone(k) ==
    /\ k \in reads
    /\ reads' = reads \ {k}
    /\ conns' = Send(conns, k)
    /\ toasts' = <<>>
    /\ UNCHANGED <<callState, showCallModal, conversation, isRecording, wsRef,
                   mediaStreamRef, mediaRecorderRef, connCb, calls, streams,
                   recorders, nChunks, plays,
                   timers, openContexts>>

\* ------------------------------------------------------ specifications
\* Frames without content: malformed text, an unrecognized object, and the
\* handshake acknowledgment.
ControlFrames == {f \in Frames : f.kind = "text" /\ f.parts = <<>>}

\* The session controller and the transport adapter, with start requests S
\* and inbound frames F.
Session(S, F) ==
    \/ \E i \in S : StartCallClick(i)
    \/ \E i \in Calls, r \in PermissionStates : PermissionResolved(i, r)
    \/ \E i \in Calls, r \in MediaResults : GetUserMediaResolved(i, r)
    \/ EndCallClick
    \/ ToggleMute
    \/ ToggleSpeaker
    \/ \E c \in Calls : OnOpen(c)
    \/ \E p \in DOMAIN timers : SetupTimerFires(p)
    \/ \E c \in Calls : OnError(c)
    \/ \E c \in Calls : OnClose(c)
    \/ \E c \in Calls, f \in F : OnMessage(c, f)

\* The playback pipeline.
Playback ==
    \/ \E p \in DOMAIN plays : ReaderLoad(p)
    \/ \E p \in DOMAIN plays, ok \in BOOLEAN : DecodeDone(p, ok)
    \/ \E p \in DOMAIN plays, ok \in BOOLEAN : PlaySettled(p, ok)
    \/ \E p \in DOMAIN plays : PlaybackEnded(p)

\* The capture pipeline.
Capture ==
    \/ \E ok \in BOOLEAN : RecTimerFires(ok)
    \/ \E r \in DOMAIN recorders : RecorderData(r)
    \/ \E r \in DOMAIN recorders : RecorderFlushEmpty(r)
    \/ \E k \in reads : ReadDone(k)

\* The playback pipeline writes only plays, isRecording and the transcript,
\* the capture pipeline only recorders, mediaRecorderRef, reads, nChunks and
\* the sockets' sent messages and recorder timers, and neither reads what
\* the other writes.  Spec runs both pipelines for one start request;
\* SpecCapture and SpecPlayback run one pipeline each for MaxCalls start
\* requests, which may overlap (the start button stays enabled until the
\* permission query of the first request has resolved).
FirstCall == {1}

Next == Session(FirstCall, Frames) \/ Playback \/ Capture

Spec == Init /\ [][Next]_vars

NextCapture == Session(Calls, ControlFrames) \/ Capture

SpecCapture == Init /\ [][NextCapture]_vars

NextPlayback == Session(Calls, Frames) \/ Playback

SpecPlayback == Init /\ [][NextPlayback]_vars


\* =================================================================== claims
\* A step in which endCall ran: it is the one place that emits EndedToast.
EndCallStep == toasts' # <<>> /\ toasts'[Len(toasts')] = EndedToast

\* ---------------------------------------------------------------- C1
\* C1: on every connection, no audio message (realtimeInput) has been sent
\* unless a setupComplete message was received on that same connection.
AudioSent(c) == \E k \in 1..Len(conns[c].sent) : conns[c].sent[k] # SetupMsg

C1_NoAudioBeforeSetupComplete ==
    \A c \in Calls : AudioSent(c) => conns[c].nAck > 0

\* ---------------------------------------------------------------- C2
\* C2: a non-empty chunk delivered by a recorder is handed to the send path
\* if and only if, at that instant, the held connection is open and the
\* session's muted flag is false.
C2_ForwardedIffOpenAndUnmuted ==
    [][nChunks' = nChunks + 1 =>
        ((nChunks' \in reads') <=>
            (wsRef # 0 /\ conns[wsRef].rs = "open" /\ ~callState.isMuted))]_vars

\* ---------------------------------------------------------------- C3
\* C3: endCall, in any status and with or without a recorder, releases the
\* connection, recorder and stream references, closes the held connection,
\* stops the held recorder, leaves every capture track stopped (no acquired
\* stream is live afterwards), resets callState to its idle defaults, empties
\* the transcript and clears the speaking indicator; run from the state it
\* leaves, it changes nothing.
TornDown ==
    /\ wsRef = 0
    /\ mediaRecorderRef = 0
    /\ mediaStreamRef = 0
    /\ callState = IdleDefaults
    /\ conversation = <<>>
    /\ ~isRecording
    /\ ~showCallModal

\* What endCall does to the references it holds, and its idempotence.
EndCallReleasesHeld ==
    /\ TornDown'
    /\ wsRef # 0 => conns'[wsRef].rs \in {"closing", "closed"}
    /\ mediaRecorderRef # 0 => recorders'[mediaRecorderRef].state = "inactive"
    /\ mediaStreamRef # 0 => streams'[mediaStreamRef].state = "stopped"
    /\ TornDown =>
         UNCHANGED <<callState, showCallModal, conversation, isRecording,
                     wsRef, mediaStreamRef, mediaRecorderRef, connCb, conns,
                     streams, timers, recorders, reads, nChunks, plays,
                     openContexts>>

C3_EndCallResets ==
    [][EndCallStep =>
        /\ EndCallReleasesHeld
        /\ \A s \in Calls : streams'[s].state # "live"]_vars

\* ---------------------------------------------------------------- C4
\* C4: when getUserMedia succeeds for a start request after endCall has run
\* (no session is active any more), no stream is retained, no connection is
\* opened and status stays idle.
C4_LateGrantIsNoOp ==
    [][\A i \in Calls :
        (/\ calls[i].pc = "media"
         /\ calls'[i].res = "granted"
         /\ ~callState.isActive)
        => /\ mediaStreamRef' = 0
           /\ wsRef' = 0
           /\ conns'[i].rs = "none"
           /\ callState'.status = "idle"]_vars

\* ---------------------------------------------------------------- C5
\* C5: after teardown, while no session is active, the speaking indicator is
\* false: a decode or playback-start that was pending at endCall does not
\* set it when it completes.
C5_IndicatorStaysFalse == ~callState.isActive => ~isRecording

\* ---------------------------------------------------------------- C6
\* C6 as claimed: status goes from connecting to connected only in a step that
\* receives setupComplete on the held connection.
C6_OnlyOnSetupComplete ==
    [][(callState.status = "connecting" /\ callState'.status = "connected") =>
        (wsRef # 0 /\ conns'[wsRef].nAck = conns[wsRef].nAck + 1)]_vars

\* C6 as amended: status goes from connecting to connected only in a step in
\* which some connection reports open or delivers setupComplete.
C6_OnlyOnOpenOrSetupComplete ==
    [][(callState.status = "connecting" /\ callState'.status = "connected") =>
        \E c \in Calls :
            \/ conns[c].rs = "connecting" /\ conns'[c].rs = "open"
            \/ conns'[c].nAck = conns[c].nAck + 1]_vars

\* The held connection has reported open, nothing was acknowledged yet, and
\* status is already connected.
C6_Witness ==
    /\ callState.status = "connected"
    /\ wsRef # 0
    /\ conns[wsRef].rs = "open"
    /\ conns[wsRef].nAck = 0
    /\ NumSetups(wsRef) = 0

\* ---------------------------------------------------------------- C7
\* C7: status never moves to an earlier value in the order idle < connecting
\* < connected < disconnected, except to idle in a step in which endCall ran.
Rank(st) ==
    CASE st = "idle" -> 0
      [] st = "connecting" -> 1
      [] st = "connected" -> 2
      [] st = "disconnected" -> 3

C7_StatusMonotonic ==
    [][\/ Rank(callState'.status) >= Rank(callState.status)
       \/ callState'.status = "idle" /\ EndCallStep]_vars

\* ---------------------------------------------------------------- C8
\* C8: in the step in which a connection reports an error while status is
\* connected, status becomes disconnected and the held stream's tracks are
\* stopped.
ErrorStep(c) ==
    conns[c].rs # "closed" /\ conns'[c].rs = "closed" /\ conns'[c].closePending

C8_ErrorTearsDown ==
    [][\A c \in Calls :
        (callState.status = "connected" /\ ErrorStep(c)) =>
            /\ callState'.status = "disconnected"
            /\ mediaStreamRef # 0 => streams'[mediaStreamRef].state = "stopped"]_vars

\* ---------------------------------------------------------------- C9
\* C9: when a start request ends on a denied permission (query 'denied' or
\* NotAllowedError) while no connection is held and no other start request
\* is in flight, status is idle afterwards, exactly one permission-denied
\* notification was emitted, and the request never got a connection.
DeniedToasts == {"Permissao Negada", "Acesso Negado"}

DeniedStep(i) ==
    /\ calls[i].pc # "done"
    /\ calls'[i].pc = "done"
    /\ calls'[i].res \in {"denied", "NotAllowedError"}
    /\ wsRef = 0
    /\ \A j \in Calls \ {i} : calls[j].pc \in {"new", "done"}

C9_DeniedEndsIdle ==
    [][\A i \in Calls :
        DeniedStep(i) =>
            /\ callState'.status = "idle"
            /\ Cardinality({k \in 1..Len(toasts') : toasts'[k] \in DeniedToasts}) = 1
            /\ conns'[i].rs = "none"]_vars

\* --------------------------------------------------------------- C10
\* C10: an inbound audio payload starts towards playback (an inline part is
\* handed to playAudioResponse, a binary frame to decodeAudioData) only if
\* speakerEnabled is true at the moment it is processed.
InlineStarted ==
    /\ Len(plays') = Len(plays) + 1
    /\ plays'[Len(plays')].kind = "inline"

BinaryStarted ==
    /\ Len(plays') = Len(plays)
    /\ \E p \in DOMAIN plays :
          plays[p].phase = "reading" /\ plays'[p].phase = "decoding"

C10_GateUsesCurrentSpeaker ==
    [][(InlineStarted \/ BinaryStarted) => callState.speakerEnabled]_vars

\* --------------------------------------------------------------- C11
\* C11: while the speaker is enabled, a serverContent message whose parts
\* hold both a text part and an inline-audio part appends exactly one
\* transcript entry, with speaker AI, and starts exactly one playback attempt.
BothParts(f) == FindText(f.parts) # 0 /\ FindAudio(f.parts) # 0

C11_OneEntryOneAttempt ==
    [][\A c \in Calls, f \in Frames :
        (OnMessage(c, f) /\ BothParts(f) /\ callState.speakerEnabled) =>
            /\ Len(conversation') = Len(conversation) + 1
            /\ SubSeq(conversation', 1, Len(conversation)) = conversation
            /\ conversation'[Len(conversation')].speaker = "AI"
            /\ Len(plays') = Len(plays) + 1
            /\ SubSeq(plays', 1, Len(plays)) = plays
            /\ plays'[Len(plays')].kind = "inline"]_vars

\* A message with a text part and an audio part has just been handled with
\* the speaker enabled: its text is the last entry and its audio is starting.
C11_Witness ==
    /\ callState.speakerEnabled
    /\ Len(conversation) = 2
    /\ conversation[2].message = "t1"
    /\ Len(plays) = 1
    /\ plays[1].kind = "inline"
    /\ plays[1].phase = "starting"

\* --------------------------------------------------------------- C12
\* C12: a received serverContent message extends the transcript by the text
\* of every text part it carries, in order, as AI entries, and changes
\* nothing of what the transcript already held.
TextParts(parts) == SelectSeq(parts, IsText)

Entries(parts) ==
    [k \in 1..Len(parts) |-> [speaker |-> "AI", message |-> TextOf[parts[k]]]]

C12_TranscriptHoldsEveryTextPart ==
    [][\A c \in Calls, f \in Frames :
        (OnMessage(c, f) /\ f.kind = "text" /\ f.valid) =>
            conversation' = conversation \o Entries(TextParts(f.parts))]_vars

\* --------------------------------------------------------------- C13
\* C13: the first playback attempt of an inline payload uses the declared
\* MIME type, and an attempt that is rejected while candidates remain is
\* followed by an attempt with the next candidate.
NumCandidates == Len(SupportedTypes(""))

C13_DeclaredFirstThenFallbacks ==
    [][/\ \A c \in Calls, f \in Frames :
            (OnMessage(c, f) /\ InlineStarted) =>
                plays'[Len(plays')].type = MimeOf[f.parts[FindAudio(f.parts)]]
       /\ \A p \in DOMAIN plays :
            (PlaySettled(p, FALSE) /\ plays[p].cand < NumCandidates) =>
                /\ Len(plays') = Len(plays)
                /\ plays'[p].phase = "starting"
                /\ plays'[p].cand = plays[p].cand + 1]_vars

\* --------------------------------------------------------------- C14
\* C14 (its last part): once a session has its recorder running, a chunk the
\* recorder delivers while the held connection is open and the session is
\* unmuted is handed to the send path.
C14_UnmutedChunksForwarded ==
    [][(/\ nChunks' = nChunks + 1
        /\ wsRef # 0
        /\ conns[wsRef].rs = "open"
        /\ ~callState.isMuted)
       => nChunks' \in reads']_vars

\* --------------------------------------------------------------- C15
\* C15: no connection is ever sent two setup messages, and the first message
\* sent on a connection is the setup message.
C15_OneSetupAndFirst ==
    \A c \in Calls :
        /\ NumSetups(c) <= 1
        /\ conns[c].sent # <<>> => conns[c].sent[1] = SetupMsg

\* --------------------------------------------------------------- C16
\* C16: a text frame that fails JSON parsing, or parses but carries neither
\* serverContent parts nor setupComplete, leaves status (the whole
\* callState), transcript, speaking indicator, recorders, playbacks, timers
\* and connections unchanged; the connection it arrived on stays open.
Inert(f) ==
    /\ f.kind = "text"
    /\ ~f.valid \/ (f.parts = <<>> /\ ~f.setupComplete)

C16_InertFrameChangesNothing ==
    [][\A c \in Calls, f \in Frames :
        (OnMessage(c, f) /\ Inert(f)) =>
            /\ UNCHANGED <<callState, showCallModal, conversation, isRecording,
                           wsRef, mediaStreamRef, mediaRecorderRef, conns,
                           streams, timers, recorders, reads, plays,
                           openContexts>>
            /\ conns'[c].rs = "open"]_vars

\* Right after onopen's notification an inert frame was handled on the held
\* connection: the notification is gone and the session is as onopen left it,
\* with the setup timer still pending.
C16_Witness ==
    /\ wsRef # 0
    /\ conns[wsRef].rs = "open"
    /\ toasts = <<>>
    /\ timers = <<[kind |-> "setup", conn |-> wsRef]>>
    /\ callState.status = "connected"
    /\ ~callState.isMuted
    /\ callState.speakerEnabled
    /\ conversation = <<Greeting>>
    /\ plays = <<>>

\* --------------------------------------------------------------- C17
\* C17: a step in which device acquisition fails or a connection reports an
\* error emits exactly one classified notification and leaves the call dialog
\* closed; a step that handles a malformed frame, a decode failure or a
\* playback rejection emits no notification.
Classified == {"Acesso Negado", "Erro de Microfone", "Erro de Conexao"}

NumClassified(ts) == Cardinality({k \in 1..Len(ts) : ts[k] \in Classified})

AcquisitionFailed(i) ==
    /\ calls[i].pc = "media"
    /\ calls'[i].res \in MediaResults \ {"granted"}

C17_FatalNotifiesOnceAndClosesUI ==
    [][/\ \A i \in Calls :
            (AcquisitionFailed(i) \/ ErrorStep(i)) =>
                /\ NumClassified(toasts') = 1
                /\ ~showCallModal'
       /\ \A c \in Calls : OnMessage(c, MalformedFrame) => toasts' = <<>>
       /\ \A p \in DOMAIN plays :
            (DecodeDone(p, FALSE) \/ PlaySettled(p, FALSE)) => toasts' = <<>>]_vars

\* --------------------------------------------------------------- C18
\* C18: a device-acquisition failure runs endCall, and the notification it
\* shows is one that no failure of another class (permission-denied,
\* device-unavailable, unknown) would show.
ErrorClass ==
    [NotAllowedError |-> "permission-denied",
     NotReadableError |-> "device-unavailable",
     AbortError |-> "unknown"]

C18_DistinctMessagePerClass ==
    [][\A i \in Calls :
        AcquisitionFailed(i) =>
            /\ EndCallStep
            /\ TornDown'
            /\ \A r \in MediaResults \ {"granted"} :
                  ErrorClass[r] # ErrorClass[calls'[i].res] =>
                      MediaErrorToast(r) # toasts'[1]]_vars

\* --------------------------------------------------------------- C19
\* C19: at any time at most one connection is connecting or open and at most
\* one acquired stream has live tracks, and while no reference is held (after
\* teardown) there is none.
Unclosed == {c \in Calls : conns[c].rs \in {"connecting", "open"}}

LiveStreams == {s \in Calls : streams[s].state = "live"}

C19_AtMostOneConnectionAndStream ==
    /\ Cardinality(Unclosed) <= 1
    /\ Cardinality(LiveStreams) <= 1
    /\ wsRef = 0 => Unclosed = {}
    /\ mediaStreamRef = 0 => LiveStreams = {}

\* --------------------------------------------------------------- C20
\* C20: on every connection the realtimeInput messages appear in the order
\* the recorder produced their chunks (chunk k is the k-th one produced).
C20_ChunksSentInOrder ==
    \A c \in Calls :
        \A j \in DOMAIN conns[c].sent, k \in DOMAIN conns[c].sent :
            (j < k /\ conns[c].sent[j] # SetupMsg /\ conns[c].sent[k] # SetupMsg)
                => conns[c].sent[j] < conns[c].sent[k]

\* --------------------------------------------------------------- C21
\* C21: while a session is active, the speaking indicator is true exactly
\* when at least one inbound payload is rendering (its playback has started
\* and has not ended), however many payloads are rendering.
Rendering == {p \in DOMAIN plays : plays[p].phase = "playing"}

C21_IndicatorTracksRendering ==
    callState.isActive => (isRecording <=> Rendering # {})

\* --------------------------------------------------------------- C22
\* C22: every transient context belongs to a payload that is still being
\* decoded, started or played: when a payload has left the pipeline (natural
\* end, decode failure, playback rejection) its AudioContext has been closed
\* or its object URL revoked.
InFlight == Len(SelectSeq(plays, HoldsContext))

C22_NoContextOutlivesItsPayload == openContexts = InFlight

\* --------------------------------------------------------------- C23
\* C23: a connection comes into being only in the step in which the device
\* acquisition of its own start request succeeds (never after a close or an
\* error, never without a start request), and whenever a connection
\* reference is held a capture stream is held too.
C23_ConnectionOnlyFromGrantedStart ==
    [][/\ \A c \in Calls :
            (conns[c].rs = "none" /\ conns'[c].rs # "none") =>
                /\ calls[c].pc = "media"
                /\ calls'[c].res = "granted"
                /\ streams'[c].state = "live"
       /\ \A c \in Calls :
            conns[c].rs # "none" =>
                (conns'[c].rs = "connecting" => conns[c].rs = "connecting")
       /\ wsRef' # 0 => mediaStreamRef' # 0]_vars

\* The held connection has failed and been closed, the session is still
\* shown as disconnected with its stream held, and no other connection exists.
C23_Witness ==
    /\ wsRef # 0
    /\ mediaStreamRef # 0
    /\ conns[wsRef].rs = "closed"
    /\ ~conns[wsRef].closePending
    /\ callState.status = "disconnected"
    /\ \A c \in Calls \ {wsRef} : conns[c].rs = "none"

\* --------------------------------------------------------------- C24
\* C24: a step in which the capture or playback pipeline fails (the recorder
\* cannot be constructed or started, a chunk cannot be sent, a decode fails,
\* a playback is rejected) leaves callState, the dialog, the transcript, the
\* references, the streams and every connection's state unchanged, runs no
\* endCall and emits no notification.
RecorderFailed ==
    /\ RecTimerFires(FALSE)
    /\ mediaStreamRef # 0
    /\ wsRef # 0
    /\ conns[wsRef].rs = "open"

SendFailed ==
    /\ \E k \in reads : ReadDone(k)
    /\ wsRef = 0 \/ conns[wsRef].rs # "open"

PlaybackFailed ==
    \E p \in DOMAIN plays : DecodeDone(p, FALSE) \/ PlaySettled(p, FALSE)

C24_PipelineErrorsAreNotFatal ==
    [][(RecorderFailed \/ SendFailed \/ PlaybackFailed) =>
        /\ UNCHANGED <<callState, showCallModal, conversation, wsRef,
                       mediaStreamRef, mediaRecorderRef, streams>>
        /\ \A c \in Calls : conns'[c].rs = conns[c].rs
        /\ ~EndCallStep
        /\ toasts' = <<>>]_vars

\* A decode has failed (its context was left behind) and the session goes on:
\* still connected on an open connection, the dialog shown.
C24_Witness ==
    /\ openContexts > InFlight
    /\ callState.isActive
    /\ callState.status = "connected"
    /\ showCallModal
    /\ wsRef # 0
    /\ conns[wsRef].rs = "open"

\* --------------------------------------------------------------- C25
\* C25: when endCall has run, the held connection is closed and its reference
\* released, the held recorder stopped, the held stream's tracks stopped, and
\* callState and the transcript reset; and a chunk delivered by a recorder
\* whose stream's tracks have been stopped is never handed to the send path.
C25_NoChunkAfterTracksStopped ==
    [][/\ EndCallStep =>
            /\ wsRef # 0 => conns'[wsRef].rs \in {"closing", "closed"}
            /\ wsRef' = 0
            /\ mediaRecorderRef # 0 =>
                  recorders'[mediaRecorderRef].state = "inactive"
            /\ mediaStreamRef # 0 => streams'[mediaStreamRef].state = "stopped"
            /\ callState' = IdleDefaults
            /\ conversation' = <<>>
       /\ \A r \in DOMAIN recorders :
            (RecorderData(r) /\ streams[recorders[r].stream].state = "stopped")
                => nChunks' \notin reads']_vars

\* --------------------------------------------------------------- C26
\* C26: whenever a capture stream is held, its audio tracks are enabled
\* exactly when the session is not muted.
C26_TrackEnabledIsNotMuted ==
    mediaStreamRef # 0 =>
        (streams[mediaStreamRef].enabled <=> ~callState.isMuted)

\* --------------------------------------------------------------- C27
\* C27: the step in which a start request gets past its permission query
\* with anything but 'denied' leaves status connecting, the session active,
\* the transcript equal to the one greeting entry and the start time set;
\* and a start time that is set changes only in a step in which endCall ran.
PastQuery(i) ==
    /\ calls[i].pc = "perm"
    /\ calls'[i].pc # "perm"
    /\ calls'[i].res # "denied"

C27_StartMovesToConnecting ==
    [][/\ \A i \in Calls :
            PastQuery(i) =>
                /\ callState'.status = "connecting"
                /\ callState'.isActive
                /\ callState'.startTime # 0
                /\ conversation' = <<Greeting>>
       /\ callState.startTime # 0 =>
            (callState'.startTime = callState.startTime \/ EndCallStep)]_vars

\* --------------------------------------------------------------- C28
\* C28: a step that receives a binary frame, and every later step of that
\* payload (reader load, decode settled, playback ended), leaves callState,
\* the transcript, the dialog, the recorders, the timers, the references, the
\* streams and the connections unchanged: only the playbacks, their contexts
\* and the speaking indicator change.
BinaryStep ==
    \/ \E c \in Calls : OnMessage(c, BinaryFrame)
    \/ \E p \in DOMAIN plays :
          /\ plays[p].kind = "binary"
          /\ \/ ReaderLoad(p)
             \/ \E ok \in BOOLEAN : DecodeDone(p, ok)
             \/ PlaybackEnded(p)

C28_BinaryFrameIsOnlyAudio ==
    [][BinaryStep =>
        UNCHANGED <<callState, showCallModal, conversation, wsRef,
                    mediaStreamRef, mediaRecorderRef, connCb, calls, conns,
                    streams, timers, recorders, reads, nChunks>>]_vars

\* A binary frame was received, read and decoded and is being played; the
\* session is as the handshake left it and the transcript holds the greeting.
C28_Witness ==
    /\ \E p \in DOMAIN plays : plays[p].kind = "binary" /\ plays[p].phase = "playing"
    /\ isRecording
    /\ conversation = <<Greeting>>
    /\ callState.status = "connected"
    /\ wsRef # 0
    /\ conns[wsRef].rs = "open"
    /\ conns[wsRef].nAck = 1

\* --------------------------------------------------------------- C29
\* C29: in every reachable state the session is active exactly when the start
\* time is set, and exactly when the call dialog is shown.
C29_SessionMarkersAgree ==
    /\ callState.isActive <=> callState.startTime # 0
    /\ callState.isActive <=> showCallModal

\* A session is running on an open connection: all three markers are set.
C29_Witness ==
    /\ callState.isActive
    /\ callState.startTime # 0
    /\ showCallModal
    /\ callState.status = "connected"
    /\ wsRef # 0
    /\ conns[wsRef].rs = "open"

\* --------------------------------------------------------------- C30
\* C30: in every reachable state a status other than idle implies an active
\* session, so after endCall the status stays idle until the next start
\* request whatever the released connection delivers.
C30_NonIdleImpliesActive ==
    callState.status # "idle" => callState.isActive

\* --------------------------------------------------------------- C31
\* C31: in every reachable state at most one recorder is recording.
Running == {r \in DOMAIN recorders : recorders[r].state = "recording"}

C31_AtMostOneRecorderRunning ==
    Cardinality(Running) <= 1

\* --------------------------------------------------------------- C32
\* C32: a step of toggleMute negates isMuted, negates the enable flag of the
\* held stream's tracks and changes nothing else; a step of toggleSpeaker
\* negates speakerEnabled and changes nothing else.  Each toggle negating its
\* flags, applying it twice restores them.
ToggleFrame ==
    UNCHANGED <<showCallModal, conversation, isRecording, wsRef,
                mediaStreamRef, mediaRecorderRef, calls, conns, recorders,
                reads, nChunks, plays, timers, openContexts>>

C32_TogglesNegateOnlyTheirFlags ==
    [][/\ ToggleMute =>
            /\ callState' = [callState EXCEPT !.isMuted = ~callState.isMuted]
            /\ streams' =
                 [s \in DOMAIN streams |->
                     IF s = mediaStreamRef
                     THEN [streams[s] EXCEPT !.enabled = ~streams[s].enabled]
                     ELSE streams[s]]
            /\ ToggleFrame
       /\ ToggleSpeaker =>
            /\ callState' =
                 [callState EXCEPT !.speakerEnabled = ~callState.speakerEnabled]
            /\ UNCHANGED streams
            /\ ToggleFrame]_vars
====
